---- MODULE Spec2Model ----
(***************************************************************************)
(* Model of src/main.py: the HTTP function generateAvatarVideo and its six *)
(* stage helpers.  An invocation is a process that walks through the body  *)
(* of generateAvatarVideo; the external collaborators (content store,      *)
(* text-to-speech, lip-sync service, result URL, document store, local     *)
(* filesystem) answer nondeterministically.  Strings are sequences of      *)
(* tokens: a literal piece of an f-string is one token, a character of a   *)
(* request value is one token.                                             *)
(***************************************************************************)
EXTENDS Integers, Sequences, FiniteSets, TLC

\* ------------------------------------------------------------------ bounds

\* Number of invocations the host serves during one run of the model.
NumInvocations == 2

\* Largest value the wall clock reaches (in clock ticks).
MaxClock == 2

\* Clock ticks per second (the scaled-down microsecond resolution of %f).
TicksPerSecond == 2

Proc == 1 .. NumInvocations

\* ----------------------------------------------------------- string helpers

Digit == <<"0", "1", "2", "3", "4", "5", "6", "7", "8", "9">>

\* Decimal digits of n, most significant first, zero-padded to width w
\* (strftime's fixed-width fields).
RECURSIVE Digits(_, _)
Digits(n, w) ==
  IF w = 0 THEN <<>> ELSE Digits(n \div 10, w - 1) \o <<Digit[(n % 10) + 1]>>

\* sub occurs in s as a contiguous piece.
Contains(s, sub) ==
  \E k \in 0 .. (Len(s) - Len(sub)) :
     \A j \in 1 .. Len(sub) : s[k + j] = sub[j]

\* Index of the first "." of s, or Len(s) + 1 when there is none.
RECURSIVE FirstDot(_, _)
FirstDot(s, k) ==
  IF k > Len(s) THEN k
  ELSE IF s[k] = "." THEN k ELSE FirstDot(s, k + 1)

\* str.split('.')[0]: the characters before the first ".".
SplitFirst(s) == SubSeq(s, 1, FirstDot(s, 1) - 1)

\* ------------------------------------------------------------- JSON values

\* A value of a JSON object's field as dict.get returns it: the default when
\* the key is absent, else a string, or a value that is not a string.
\* s is the text str() / an f-string renders for it.
Absent == [t |-> "absent", s |-> <<>>]
Str(chars) == [t |-> "str", s |-> chars]
Num(chars) == [t |-> "num", s |-> chars]

\* Python truthiness (`not x` is ~Truthy(x)): None and "" are falsy.
Truthy(v) == v.t # "absent" /\ v.s # <<>>

ScriptTexts == {Absent, Str(<<>>), Str(<<"h", "i">>)}
AvatarIds == {Absent, Str(<<>>), Str(<<"a", ".", "p">>), Str(<<"a", ".", "j">>),
              Num(<<"5">>)}
UserIds == {Absent, Str(<<"u">>)}

\* What request.get_json(silent=True) returns: None for a body that is not
\* JSON, a falsy JSON value ({} [] 0 "" false null), a truthy JSON value that
\* is no object (a list, a string, a number), or an object.
NoFields == [script_text |-> Absent, avatar_id |-> Absent, user_id |-> Absent]
Bodies ==
  {[kind |-> k] @@ NoFields : k \in {"not_json", "falsy", "not_object"}}
  \cup {[kind |-> "object", script_text |-> s, avatar_id |-> a, user_id |-> u] :
          s \in ScriptTexts, a \in AvatarIds, u \in UserIds}

\* --------------------------------------------------------------- responses

NoUrl == <<>>

\* `return message, status` with a plain-text message.
ErrorResponse(message, status) ==
  [status |-> status, message |-> message, video_url |-> NoUrl, json |-> FALSE]

\* `return {"message": ..., "video_url": url}, 200`.
SuccessResponse(url) ==
  [status |-> 200, message |-> <<"Video generated successfully!">>,
   video_url |-> url, json |-> TRUE]

\* OperationFailure(message, status_code): str(e) is the message.
OperationFailure(message, status_code) ==
  [exc |-> "OperationFailure", message |-> message, status_code |-> status_code]

\* Any other exception, with the text str(e) gives.
OtherException(text) ==
  [exc |-> "Exception", message |-> <<text>>, status_code |-> 0]

\* ------------------------------------------------------------------- state

VARIABLES
  token,        \* REPLICATE_API_TOKEN is set in the environment
  concurrency,  \* how many requests the host dispatches at the same time
  faults,       \* the collaborators and the filesystem may fail in this run
  clock,        \* the wall clock datetime.now() reads, in ticks
  arrivals,     \* requests the platform has still to dispatch to this host
  disk,         \* /tmp: the files, each with the invocation that created it
  bucket,       \* objects published to the storage bucket, with the uploader
  db,           \* documents of the video_creations collection
  inv           \* per invocation: the locals of generateAvatarVideo

env == <<token, concurrency, faults>>

vars == <<env, arrivals, clock, disk, bucket, db, inv>>

Stages == <<"image_fetch", "speech_synthesis", "lip_sync", "result_fetch",
            "publish", "metadata">>

Idle ==
  [pc |-> "idle",
   request |-> [kind |-> "none"] @@ NoFields,
   has_header |-> FALSE,
   script_text |-> Absent,
   avatar_id |-> Absent,
   user_id |-> Absent,
   execution_id |-> <<>>,
   replicate_video_url |-> <<>>,
   timestamp |-> 0,
   final_storage_path |-> <<>>,
   final_video_storage_url |-> NoUrl,
   attempted |-> <<>>,      \* stages entered, in order
   failed |-> <<>>,         \* stages that raised, with the cause
   inserts |-> <<>>,        \* documents handed to collection.add
   created |-> {},          \* transient paths this invocation wrote to
   remove_tried |-> <<>>,   \* paths os.remove was called on
   remove_failed |-> {},    \* paths whose os.remove raised
   responses |-> <<>>,      \* values returned to the caller
   raised |-> "none",       \* exception that left generateAvatarVideo
   clients |-> "untried",   \* how the construction of the API clients went
   result |-> <<>>,         \* the value of the return statement that ran
   cleanup_at |-> 1]        \* position of the finally loop

InitCommon ==
  /\ clock = 0
  /\ disk = {}
  /\ bucket = {}
  /\ db = <<>>
  /\ inv = [i \in Proc |-> Idle]

\* A host that is sent one request, with or without the token configured; every
\* collaborator may fail.
Init ==
  /\ InitCommon
  /\ token \in BOOLEAN
  /\ faults = TRUE
  /\ concurrency = 1
  /\ arrivals = 1

\* A configured host that is sent NumInvocations requests and handles them
\* concurrently; the collaborators answer and the filesystem works.
InitConc ==
  /\ InitCommon
  /\ token = TRUE
  /\ faults = FALSE
  /\ concurrency = NumInvocations
  /\ arrivals = NumInvocations

\* The answers a collaborator can give in this run, "ok" among them.
Answers(all) == IF faults THEN all ELSE {"ok"}

\* Whether a call that can fail succeeds.
Succeeds == IF faults THEN BOOLEAN ELSE {TRUE}

\* ------------------------------------------------------------ small helpers

Active(i) == inv[i].pc \notin {"idle", "returned"}

Update(i, r) == inv' = [inv EXCEPT ![i] = r]

Exists(fs, p) == \E f \in fs : f.path = p

\* open(p, "wb") / download_to_filename(p): creates p unless it is there
\* (an existing file is truncated and stays the file it was).
WriteFile(fs, p, i) ==
  IF Exists(fs, p) THEN fs ELSE fs \cup {[path |-> p, creator |-> i]}

RemoveFile(fs, p) == {f \in fs : f.path # p}

\* ----------------------------------------------------------- path building

temp_avatar_path(execution_id) == <<"/tmp/avatar_">> \o execution_id \o <<".png">>
temp_audio_path(execution_id) == <<"/tmp/output_">> \o execution_id \o <<".mp3">>
temp_video_path(execution_id) == <<"/tmp/final_video_">> \o execution_id \o <<".mp4">>

\* The list the finally block loops over.
TempPaths(execution_id) ==
  <<temp_avatar_path(execution_id), temp_audio_path(execution_id),
    temp_video_path(execution_id)>>

\* The value of the Function-Execution-Id header: the platform gives every
\* invocation its own.
HeaderExecutionId(i) == <<"x", Digit[i + 1]>>

\* datetime.now().strftime('%Y%m%d%H%M%S%f'): seconds, then the sub-second part.
FormatMicros(c) == Digits(c \div TicksPerSecond, 2) \o Digits(c % TicksPerSecond, 1)

\* datetime.now().strftime("%Y%m%d_%H%M%S") of second sec: date, "_", time.
FormatSeconds(sec) == Digits(sec \div 10, 1) \o <<"_">> \o Digits(sec % 10, 1)

avatar_storage_path(avatar_id) == <<"avatars/default/">> \o avatar_id.s

base_avatar_id(avatar_id) == SplitFirst(avatar_id.s)

storage_video_filename(sec, avatar_id) ==
  FormatSeconds(sec) \o <<"_">> \o base_avatar_id(avatar_id) \o <<".mp4">>

final_storage_path(user_id, sec, avatar_id) ==
  <<"generated_videos/">> \o user_id.s \o <<"/">> \o storage_video_filename(sec, avatar_id)

\* blob.public_url of the object at path.
public_url(path) == <<"https://storage.googleapis.com/bucket/">> \o path

\* request_json.get('user_id', 'test_user')
DefaultUserId(v) ==
  IF v.t = "absent" THEN Str(<<"t", "e", "s", "t", "_", "u", "s", "e", "r">>) ELSE v

\* ------------------------------------------------ generateAvatarVideo: entry

\* The platform hands request number i to the function.
Receive(i) ==
  /\ inv[i].pc = "idle"
  /\ arrivals > 0
  /\ \A j \in Proc : j < i => inv[j].pc # "idle"
  /\ Cardinality({j \in Proc : Active(j)}) < concurrency
  /\ arrivals' = arrivals - 1
  /\ \E b \in Bodies, h \in BOOLEAN :
       Update(i, [inv[i] EXCEPT !.pc = "check_token", !.request = b, !.has_header = h])
  /\ UNCHANGED <<env, clock, disk, bucket, db>>

\* return <value>: outside the try block the value reaches the caller at once.
Returned(r, response) ==
  [r EXCEPT !.pc = "returned", !.result = response,
            !.responses = Append(@, response)]

\* CheckToken as it would be without the token check.
CheckTokenSkipped(r) == [r EXCEPT !.pc = "validate"]

\* Lines 140-143.
CheckToken(r) ==
  IF ~token
  THEN Returned(r, ErrorResponse(<<"Configuration error: Replicate API token not found.">>, 500))
  ELSE [r EXCEPT !.pc = "validate"]

generateAvatarVideo_token(i) ==
  /\ inv[i].pc = "check_token"
  /\ Update(i, CheckToken(inv[i]))
  /\ UNCHANGED <<env, arrivals, clock, disk, bucket, db>>

\* Lines 145-156.  request_json.get on a list, a string or a number raises
\* AttributeError, which nothing in generateAvatarVideo catches.
Validate(r) ==
  LET b == r.request IN
  IF b.kind \in {"not_json", "falsy"}
  THEN Returned(r, ErrorResponse(<<"Invalid request: No JSON payload.">>, 400))
  ELSE IF b.kind = "not_object"
  THEN [r EXCEPT !.pc = "returned", !.raised = "AttributeError"]
  ELSE LET got == [r EXCEPT !.script_text = b.script_text,
                            !.avatar_id = b.avatar_id,
                            !.user_id = DefaultUserId(b.user_id)]
       IN IF ~Truthy(b.script_text)
          THEN Returned(got, ErrorResponse(
                 <<"Invalid request: 'script_text' cannot be empty or is missing.">>, 400))
          ELSE IF ~Truthy(b.avatar_id)
          THEN Returned(got, ErrorResponse(
                 <<"Invalid request: 'avatar_id' cannot be empty or is missing.">>, 400))
          ELSE [got EXCEPT !.pc = "init_clients"]

generateAvatarVideo_validate(i) ==
  /\ inv[i].pc = "validate"
  /\ Update(i, Validate(inv[i]))
  /\ UNCHANGED <<env, arrivals, clock, disk, bucket, db>>

\* InitClients as it would be if the exception of a constructor were printed
\* and the function went on.
InitClientsContinues(r, ok) ==
  [r EXCEPT !.pc = "define_paths", !.clients = IF ok THEN "ok" ELSE "failed"]

\* Lines 158-164: a constructor may raise.
InitClients(r, ok) ==
  IF ok THEN [r EXCEPT !.pc = "define_paths", !.clients = "ok"]
  ELSE Returned([r EXCEPT !.clients = "failed"],
                ErrorResponse(<<"Failed to initialize necessary API clients.">>, 500))

generateAvatarVideo_clients(i) ==
  /\ inv[i].pc = "init_clients"
  /\ \E ok \in Succeeds : Update(i, InitClients(inv[i], ok))
  /\ UNCHANGED <<env, arrivals, clock, disk, bucket, db>>

\* Line 168.
ExecutionId(i, has_header, now) ==
  IF has_header THEN HeaderExecutionId(i) ELSE FormatMicros(now)

\* Lines 166-173.
generateAvatarVideo_paths(i) ==
  /\ inv[i].pc = "define_paths"
  /\ Update(i, [inv[i] EXCEPT !.pc = "step1",
                              !.execution_id = ExecutionId(i, inv[i].has_header, clock)])
  /\ UNCHANGED <<env, arrivals, clock, disk, bucket, db>>

\* The wall clock advances.
Tick ==
  /\ clock < MaxClock
  /\ clock' = clock + 1
  /\ UNCHANGED <<env, arrivals, disk, bucket, db, inv>>

\* --------------------------------------------- generateAvatarVideo: try block

\* HandlerResponse as it would be if the catch-all put str(e) in its message.
HandlerResponseWithDetail(e) ==
  IF e.exc = "OperationFailure"
  THEN ErrorResponse(e.message, e.status_code)
  ELSE ErrorResponse(<<"An unexpected server error occurred: ">> \o e.message, 500)

\* Lines 205-211: what the except clauses make of an exception raised in the
\* try block.
HandlerResponse(e) ==
  IF e.exc = "OperationFailure"
  THEN ErrorResponse(e.message, e.status_code)
  ELSE ErrorResponse(<<"An unexpected server error occurred.">>, 500)

\* An exception leaves the try block: the except clause computes the return
\* value, and the finally block runs before it reaches the caller.
Raise(r, e) == [r EXCEPT !.pc = "cleanup", !.result = HandlerResponse(e)]

\* The stage is entered.
Enter(r, stage) == [r EXCEPT !.attempted = Append(@, stage)]


\* Fail as it would be if a failed stage were tried again instead of ending
\* the try block.
FailAndRetry(r, stage, cause, e) ==
  [r EXCEPT !.failed = Append(@, [stage |-> stage, cause |-> cause, exc |-> e.exc])]

\* Fail as it would be if the stage helper printed its exception and returned
\* (as save_metadata_to_firestore does), so that the next step runs.
FailSwallowed(r, stage, cause, e) ==
  [r EXCEPT !.failed = Append(@, [stage |-> stage, cause |-> cause, exc |-> e.exc]),
            !.pc = CASE stage = "image_fetch" -> "step2"
                     [] stage = "speech_synthesis" -> "step3"
                     [] stage = "lip_sync" -> "step4"
                     [] stage = "result_fetch" -> "step5"
                     [] OTHER -> "step6"]

\* The stage raised e because of cause (the text of the underlying error).
Fail(r, stage, cause, e) ==
  Raise([r EXCEPT !.failed = Append(@, [stage |-> stage, cause |-> cause, exc |-> e.exc])], e)


\* AvatarFailure as it would be without the NotFound clause.
AvatarFailureAlways500(outcome, storage_path) ==
  OperationFailure(<<"Failed to download avatar image. Server error: ", outcome>>, 500)

\* Lines 27-39: the exception download_avatar_image raises for an outcome of
\* blob.download_to_filename.
AvatarFailure(outcome, storage_path) ==
  IF outcome = "not_found"
  THEN OperationFailure(<<"Avatar image not found at '">> \o storage_path \o <<"'.">>, 404)
  ELSE OperationFailure(<<"Failed to download avatar image. Server error: ", outcome>>, 500)

\* Step 1, lines 176-178 and 27-39.  A failed download may leave the file it
\* opened.
download_avatar_image(i) ==
  /\ inv[i].pc = "step1"
  /\ \E outcome \in Answers({"ok", "not_found", "store error"}), wrote \in BOOLEAN :
       LET r == Enter(inv[i], "image_fetch")
           path == temp_avatar_path(r.execution_id)
       IN /\ outcome = "ok" => wrote
          /\ disk' = IF wrote THEN WriteFile(disk, path, i) ELSE disk
          /\ Update(i,
               LET w == [r EXCEPT !.created = IF wrote THEN @ \cup {path} ELSE @]
               IN IF outcome = "ok" THEN [w EXCEPT !.pc = "step2"]
                  ELSE Fail(w, "image_fetch", <<outcome>>,
                            AvatarFailure(outcome, avatar_storage_path(r.avatar_id))))
  /\ UNCHANGED <<env, arrivals, clock, bucket, db>>

\* Lines 60-62.
TtsFailure(cause) == OperationFailure(<<"TTS generation failed: ", cause>>, 500)

\* Step 2, lines 180-181 and 41-62.  The synthesis call may raise (no file yet),
\* or the write may raise after open() created the file.
generate_tts_audio(i) ==
  /\ inv[i].pc = "step2"
  /\ \E outcome \in Answers({"ok", "synthesis error", "write error"}) :
       LET r == Enter(inv[i], "speech_synthesis")
           path == temp_audio_path(r.execution_id)
           wrote == outcome # "synthesis error"
       IN /\ disk' = IF wrote THEN WriteFile(disk, path, i) ELSE disk
          /\ Update(i,
               LET w == [r EXCEPT !.created = IF wrote THEN @ \cup {path} ELSE @]
               IN IF outcome = "ok" THEN [w EXCEPT !.pc = "step3"]
                  ELSE Fail(w, "speech_synthesis", <<outcome>>, TtsFailure(outcome)))
  /\ UNCHANGED <<env, arrivals, clock, bucket, db>>

NoLocator == "Lip-sync process did not return a video URL from Replicate."

\* Lines 79-88.  The OperationFailure of line 80 is raised inside the try block
\* and is no ReplicateError, so `except Exception` wraps it again.
LipSyncFailure(outcome) ==
  IF outcome = "replicate error"
  THEN OperationFailure(
         <<"Lip-sync generation failed due to Replicate API error: ", outcome>>, 500)
  ELSE IF outcome = "no output"
  THEN OperationFailure(<<"Lip-sync process failed: ", NoLocator>>, 500)
  ELSE OperationFailure(<<"Lip-sync process failed: ", outcome>>, 500)

LipSyncCause(outcome) == IF outcome = "no output" THEN <<NoLocator>> ELSE <<outcome>>

\* Step 3, lines 183-184 and 64-88.  open() of either input raises when the
\* file is not on disk.
perform_lip_sync(i) ==
  /\ inv[i].pc = "step3"
  /\ \E answer \in Answers({"ok", "no output", "replicate error", "other error"}) :
       LET r == Enter(inv[i], "lip_sync")
           readable == /\ Exists(disk, temp_avatar_path(r.execution_id))
                       /\ Exists(disk, temp_audio_path(r.execution_id))
           outcome == IF readable THEN answer ELSE "file not found"
       IN /\ ~readable => answer = "ok"
          /\ Update(i,
               IF outcome = "ok"
               THEN [r EXCEPT !.pc = "step4",
                              !.replicate_video_url = <<"https://replicate.delivery/out.mp4">>]
               ELSE Fail(r, "lip_sync", LipSyncCause(outcome), LipSyncFailure(outcome)))
  /\ UNCHANGED <<env, arrivals, clock, disk, bucket, db>>

\* Lines 90-102: only a requests.exceptions.RequestException is turned into an
\* OperationFailure; any other exception (open() or write() failing) leaves
\* download_replicate_video as it is.
ResultFailure(outcome) ==
  IF outcome = "request error"
  THEN OperationFailure(
         <<"Failed to download generated video from Replicate: ", outcome>>, 500)
  ELSE OtherException(outcome)

\* Step 4, lines 186-187 and 90-102.
download_replicate_video(i) ==
  /\ inv[i].pc = "step4"
  /\ \E outcome \in Answers({"ok", "request error", "io error"}), wrote \in BOOLEAN :
       LET r == Enter(inv[i], "result_fetch")
           path == temp_video_path(r.execution_id)
       IN /\ outcome = "ok" => wrote
          /\ disk' = IF wrote THEN WriteFile(disk, path, i) ELSE disk
          /\ Update(i,
               LET w == [r EXCEPT !.created = IF wrote THEN @ \cup {path} ELSE @]
               IN IF outcome = "ok" THEN [w EXCEPT !.pc = "step5"]
                  ELSE Fail(w, "result_fetch", <<outcome>>, ResultFailure(outcome)))
  /\ UNCHANGED <<env, arrivals, clock, bucket, db>>

EmptyUrl == "Failed to get video URL after upload, though no exception was raised."


\* UploadFailure as it would be if the upload error were reported without its
\* cause.
UploadFailureWithoutCause(outcome) ==
  OperationFailure(<<"Failed to upload video to Firebase Storage.">>, 500)

\* Lines 114-116 and 196-197.
UploadFailure(outcome) ==
  IF outcome = "empty url"
  THEN OperationFailure(<<EmptyUrl>>, 500)
  ELSE OperationFailure(<<"Failed to upload video to Firebase Storage: ", outcome>>, 500)

UploadCause(outcome) == IF outcome = "empty url" THEN <<EmptyUrl>> ELSE <<outcome>>

\* blob.upload_from_filename: the object at path is replaced.
PutObject(objects, path, i) ==
  {o \in objects : o.path # path} \cup {[path |-> path, uploader |-> i]}

\* Line 191: avatar_id.split raises AttributeError unless avatar_id is a string.
SplitRaises(avatar_id) == avatar_id.t # "str"

\* AfterUpload as it would be without the safeguard of lines 196-197: an empty
\* public URL goes on to step 6.
AfterUploadWithoutSafeguard(r, outcome, path) ==
  IF outcome = "ok"
  THEN [r EXCEPT !.pc = "step6", !.final_video_storage_url = public_url(path)]
  ELSE IF outcome = "empty url"
  THEN [r EXCEPT !.pc = "step6", !.final_video_storage_url = NoUrl]
  ELSE Fail(r, "publish", UploadCause(outcome), UploadFailure(outcome))

\* Lines 195-197: the public URL is kept and step 6 follows only when the
\* upload returned a URL that is not empty; otherwise an OperationFailure
\* leaves the try block.
AfterUpload(r, outcome, path) ==
  IF outcome = "ok"
  THEN [r EXCEPT !.pc = "step6", !.final_video_storage_url = public_url(path)]
  ELSE Fail(r, "publish", UploadCause(outcome), UploadFailure(outcome))

\* Step 5, lines 189-197 and 104-116.  upload_from_filename raises when the
\* video file is not on disk; an upload that raised (in make_public, say) may
\* have stored the object.
upload_to_firebase_storage(i) ==
  /\ inv[i].pc = "step5"
  /\ \E answer \in Answers({"ok", "empty url", "upload error"}), stored \in BOOLEAN :
       LET r0 == inv[i]
           sec == clock \div TicksPerSecond
           path == final_storage_path(r0.user_id, sec, r0.avatar_id)
           r == Enter([r0 EXCEPT !.timestamp = sec, !.final_storage_path = path], "publish")
           readable == Exists(disk, temp_video_path(r0.execution_id))
           outcome == IF readable THEN answer ELSE "file not found"
       IN IF SplitRaises(r0.avatar_id)
          THEN /\ answer = "ok" /\ stored
               /\ bucket' = bucket
               /\ Update(i, Raise([r0 EXCEPT !.timestamp = sec],
                                  OtherException("object has no attribute 'split'")))
          ELSE /\ outcome \in {"ok", "empty url"} => stored
               /\ ~readable => (answer = "ok" /\ ~stored)
               /\ bucket' = IF stored THEN PutObject(bucket, path, i) ELSE bucket
               /\ Update(i, AfterUpload(r, outcome, path))
  /\ UNCHANGED <<env, arrivals, clock, disk, db>>

\* Lines 121-128: the document handed to collection("video_creations").add.
Document(user_id, video_url, script_text, avatar_id) ==
  [userId |-> user_id, videoUrl |-> video_url, scriptText |-> script_text,
   avatarId |-> avatar_id, status |-> "completed"]

\* AfterMetadata as it would be if a failed insert were raised to the caller.
AfterMetadataFatal(r) ==
  IF r.inserts[Len(r.inserts)].stored
  THEN [r EXCEPT !.pc = "cleanup", !.result = SuccessResponse(r.final_video_storage_url)]
  ELSE [r EXCEPT !.pc = "cleanup",
                 !.result = ErrorResponse(<<"Failed to save metadata.">>, 500)]

\* Lines 199-203: after save_metadata_to_firestore returned, the success value
\* is returned whatever the insert did.
AfterMetadata(r) ==
  [r EXCEPT !.pc = "cleanup", !.result = SuccessResponse(r.final_video_storage_url)]

\* Step 6, lines 199-203 and 118-132: a failed insert is printed, not raised.
save_metadata_to_firestore(i) ==
  /\ inv[i].pc = "step6"
  /\ \E ok \in Succeeds :
       LET r == Enter(inv[i], "metadata")
           doc == Document(r.user_id, r.final_video_storage_url, r.script_text, r.avatar_id)
       IN /\ db' = IF ok THEN Append(db, doc) ELSE db
          /\ Update(i, AfterMetadata([r EXCEPT !.inserts = Append(@, [doc |-> doc, stored |-> ok])]))
  /\ UNCHANGED <<env, arrivals, clock, disk, bucket>>

\* ------------------------------------------------ generateAvatarVideo: finally

\* The finally block is left: the pending return value reaches the caller.
Finish(r) == [r EXCEPT !.pc = "returned", !.responses = Append(@, r.result)]


\* CleanupList as it would be had the video file been left out of the loop.
CleanupListWithoutVideo(execution_id) ==
  <<temp_avatar_path(execution_id), temp_audio_path(execution_id)>>

\* Line 214: the paths the finally block visits.
CleanupList(execution_id) == TempPaths(execution_id)

\* cleanup as it would be with the try/except around the whole loop: the first
\* os.remove that raises ends the loop.
cleanup_until_error(i) ==
  /\ inv[i].pc = "cleanup"
  /\ \E removed \in Succeeds :
       LET r == inv[i]
           list == CleanupList(r.execution_id)
           path == list[r.cleanup_at]
           exists == Exists(disk, path)
           r1 == [r EXCEPT !.cleanup_at = @ + 1,
                           !.remove_tried = IF exists THEN Append(@, path) ELSE @,
                           !.remove_failed = IF exists /\ ~removed THEN @ \cup {path} ELSE @]
       IN /\ ~exists => removed
          /\ disk' = IF exists /\ removed THEN RemoveFile(disk, path) ELSE disk
          /\ Update(i, IF r.cleanup_at = Len(list) \/ (exists /\ ~removed)
                       THEN Finish(r1) ELSE r1)
  /\ UNCHANGED <<env, arrivals, clock, bucket, db>>

\* Lines 212-220, one pass of the loop: a file that exists is removed, and an
\* os.remove that raises is printed only.
cleanup(i) ==
  /\ inv[i].pc = "cleanup"
  /\ \E removed \in Succeeds :
       LET r == inv[i]
           list == CleanupList(r.execution_id)
           path == list[r.cleanup_at]
           exists == Exists(disk, path)
           r1 == [r EXCEPT !.cleanup_at = @ + 1,
                           !.remove_tried = IF exists THEN Append(@, path) ELSE @,
                           !.remove_failed = IF exists /\ ~removed THEN @ \cup {path} ELSE @]
       IN /\ ~exists => removed
          /\ disk' = IF exists /\ removed THEN RemoveFile(disk, path) ELSE disk
          /\ Update(i, IF r.cleanup_at = Len(list) THEN Finish(r1) ELSE r1)
  /\ UNCHANGED <<env, arrivals, clock, bucket, db>>

\* ------------------------------------------------------------ specification

Next ==
  \/ \E i \in Proc :
       \/ Receive(i)
       \/ generateAvatarVideo_token(i)
       \/ generateAvatarVideo_validate(i)
       \/ generateAvatarVideo_clients(i)
       \/ generateAvatarVideo_paths(i)
       \/ download_avatar_image(i)
       \/ generate_tts_audio(i)
       \/ perform_lip_sync(i)
       \/ download_replicate_video(i)
       \/ upload_to_firebase_storage(i)
       \/ save_metadata_to_firestore(i)
       \/ cleanup(i)
  \/ Tick

Spec == Init /\ [][Next]_vars

SpecConc == InitConc /\ [][Next]_vars

\* ------------------------------------------------------------------ claims

Ended(i) == inv[i].pc = "returned"

IsSuccess(o) == o.status = 200 /\ o.json /\ o.video_url # NoUrl

IsError(o) == o.status \in {400, 404, 500} /\ ~o.json /\ o.video_url = NoUrl

Range(seq) == {seq[k] : k \in 1 .. Len(seq)}

\* C1: every invocation that has ended has produced exactly one outcome, which
\* is either a 200 carrying video_url or an error message with status 400, 404
\* or 500, and not both.
C1_ExactlyOneOutcome ==
  \A i \in Proc :
    Ended(i) =>
      /\ Len(inv[i].responses) = 1
      /\ IsSuccess(inv[i].responses[1]) # IsError(inv[i].responses[1])

\* C2 as stated: once an invocation has ended, no transient file it created
\* is on disk.
C2_NoTransientFileRemains ==
  \A i \in Proc :
    Ended(i) => \A f \in disk : f.creator # i

\* C2 as amended: once an invocation has ended, every transient file it created
\* is gone from disk, except a file whose os.remove raised in its cleanup.
C2_NoTransientFileRemainsUnlessRemoveFailed ==
  \A i \in Proc :
    Ended(i) => \A f \in disk : f.creator = i => f.path \in inv[i].remove_failed

\* An invocation created all three files and ended with none of them on disk.
C2_Witness ==
  \E i \in Proc :
    /\ Ended(i)
    /\ Cardinality(inv[i].created) = 3
    /\ Len(inv[i].remove_tried) = 3
    /\ inv[i].remove_failed = {}
    /\ \A f \in disk : f.creator # i

InPipeline(i) == inv[i].pc \in {"step1", "step2", "step3", "step4", "step5", "step6", "cleanup"}

\* C3: two invocations that are in the pipeline at the same time have no
\* transient path in common.
C3_DisjointTransientPaths ==
  \A i, j \in Proc :
    (i # j /\ InPipeline(i) /\ InPipeline(j)) =>
      Range(TempPaths(inv[i].execution_id)) \cap Range(TempPaths(inv[j].execution_id)) = {}

IsPrefix(a, b) == Len(a) <= Len(b) /\ \A k \in 1 .. Len(a) : a[k] = b[k]

\* C4: the stages an invocation has attempted are an initial piece of image
\* fetch, speech synthesis, lip-sync, result fetch, publish, metadata (so each at
\* most once, in order, each after its predecessors), at most one stage has
\* failed, and a failed stage is the last one attempted.
C4_StagesInOrder ==
  \A i \in Proc :
    /\ IsPrefix(inv[i].attempted, Stages)
    /\ Len(inv[i].failed) <= 1
    /\ inv[i].failed # <<>> =>
         inv[i].failed[1].stage = inv[i].attempted[Len(inv[i].attempted)]

\* An invocation ended after its lip-sync stage failed: the two stages before it
\* were attempted, none after it.
C4_Witness ==
  \E i \in Proc :
    /\ Ended(i)
    /\ inv[i].failed # <<>>
    /\ inv[i].failed[1].stage = "lip_sync"
    /\ inv[i].attempted = <<"image_fetch", "speech_synthesis", "lip_sync">>

\* The request has no usable script_text or avatar_id, or is not JSON.
Rejectable(b) ==
  \/ b.kind = "not_json"
  \/ ~Truthy(b.script_text)
  \/ ~Truthy(b.avatar_id)

\* C5: with the token configured, an invocation whose body is not JSON or lacks
\* a non-empty script_text or avatar_id ends with status 400, having called no
\* collaborator and created no transient file.
C5_InvalidRequestRejected ==
  \A i \in Proc :
    (token /\ Ended(i) /\ Rejectable(inv[i].request)) =>
      /\ Len(inv[i].responses) = 1
      /\ inv[i].responses[1].status = 400
      /\ inv[i].attempted = <<>>
      /\ inv[i].inserts = <<>>
      /\ inv[i].created = {}

\* Stages 1 to 5 were attempted and none of them raised.
StagesOneToFiveSucceeded(r) ==
  /\ Len(r.attempted) >= 5
  /\ r.failed = <<>>

\* C6: when stages 1 to 5 succeeded and the insert failed, the invocation ends
\* with the single response 200 whose video_url is the public URL of the object
\* the publish stage stored.
C6_MetadataFailureNonFatal ==
  \A i \in Proc :
    (/\ Ended(i)
     /\ StagesOneToFiveSucceeded(inv[i])
     /\ \E k \in 1 .. Len(inv[i].inserts) : ~inv[i].inserts[k].stored) =>
      /\ Len(inv[i].responses) = 1
      /\ IsSuccess(inv[i].responses[1])
      /\ inv[i].responses[1].video_url = public_url(inv[i].final_storage_path)
      /\ \E o \in bucket : o.path = inv[i].final_storage_path

\* An invocation ended whose insert failed after five successful stages.
C6_Witness ==
  \E i \in Proc :
    /\ Ended(i)
    /\ StagesOneToFiveSucceeded(inv[i])
    /\ Len(inv[i].inserts) = 1
    /\ ~inv[i].inserts[1].stored
    /\ db = <<>>

CauseStages == {"speech_synthesis", "lip_sync", "result_fetch", "publish"}

Generic == <<"An unexpected server error occurred.">>

\* C7 as stated: when one of the stages speech synthesis, lip-sync, result
\* fetch, publish failed, the response is a 500 whose message contains the text
\* of the cause.
C7_StageFailureCarriesCause ==
  \A i \in Proc :
    (Ended(i) /\ inv[i].failed # <<>> /\ inv[i].failed[1].stage \in CauseStages) =>
      /\ Len(inv[i].responses) = 1
      /\ inv[i].responses[1].status = 500
      /\ Contains(inv[i].responses[1].message, inv[i].failed[1].cause)

\* The failure is one the stage helper turns into an OperationFailure: any
\* failure of speech synthesis, lip-sync or publish, and a request error of the
\* result fetch.
Wrapped(f) == f.stage # "result_fetch" \/ f.cause = <<"request error">>

\* C7 as amended: such a failure gives a 500; its message contains the text of
\* the cause when the stage is speech synthesis, lip-sync or publish, or the
\* result fetch failed with a request error; for any other failure of the result
\* fetch the message is the fixed text of the catch-all.
C7_StageFailureCarriesCauseWhenWrapped ==
  \A i \in Proc :
    (Ended(i) /\ inv[i].failed # <<>> /\ inv[i].failed[1].stage \in CauseStages) =>
      /\ Len(inv[i].responses) = 1
      /\ inv[i].responses[1].status = 500
      /\ IF Wrapped(inv[i].failed[1])
         THEN Contains(inv[i].responses[1].message, inv[i].failed[1].cause)
         ELSE inv[i].responses[1].message = Generic

\* An invocation ended after its publish stage failed with an upload error.
C7_Witness ==
  \E i \in Proc :
    /\ Ended(i)
    /\ inv[i].failed # <<>>
    /\ inv[i].failed[1] = [stage |-> "publish", cause |-> <<"upload error">>,
                           exc |-> "OperationFailure"]

\* C8: when the image fetch failed, no other stage was attempted; the response
\* is 404 with a message containing avatars/default/{avatar_id} when the store
\* reported the object missing, and 500 for any other failure.
C8_AvatarFetchFailure ==
  \A i \in Proc :
    (Ended(i) /\ inv[i].failed # <<>> /\ inv[i].failed[1].stage = "image_fetch") =>
      /\ inv[i].attempted = <<"image_fetch">>
      /\ inv[i].inserts = <<>>
      /\ Len(inv[i].responses) = 1
      /\ IsError(inv[i].responses[1])
      /\ IF inv[i].failed[1].cause = <<"not_found">>
         THEN /\ inv[i].responses[1].status = 404
              /\ Contains(inv[i].responses[1].message,
                          <<"avatars/default/">> \o inv[i].request.avatar_id.s)
         ELSE inv[i].responses[1].status = 500

\* An invocation ended with 404 after the store reported a.p missing.
C8_Witness ==
  \E i \in Proc :
    /\ Ended(i)
    /\ inv[i].failed # <<>>
    /\ inv[i].failed[1].stage = "image_fetch"
    /\ inv[i].failed[1].cause = <<"not_found">>
    /\ inv[i].request.avatar_id = Str(<<"a", ".", "p">>)
    /\ inv[i].responses[1].status = 404

\* The invocation reached the collaborators and none of them failed: no stage
\* raised and no insert failed.
EveryCollaboratorSucceeded(r) ==
  /\ r.attempted # <<>>
  /\ r.failed = <<>>
  /\ \A k \in 1 .. Len(r.inserts) : r.inserts[k].stored

\* The user_id the request stands for.
RequestUser(b) ==
  IF b.user_id = Absent THEN Str(<<"t", "e", "s", "t", "_", "u", "s", "e", "r">>)
  ELSE b.user_id

\* C9: an invocation in which every collaborator succeeded ends with 200, its
\* video_url is the public URL the publish stage returned, and exactly one
\* insert was attempted, of a document carrying that URL and the request's
\* script_text, avatar_id and user_id ("test_user" when absent).
C9_AllSucceedGives200 ==
  \A i \in Proc :
    (Ended(i) /\ EveryCollaboratorSucceeded(inv[i])) =>
      /\ Len(inv[i].responses) = 1
      /\ IsSuccess(inv[i].responses[1])
      /\ inv[i].responses[1].video_url = public_url(inv[i].final_storage_path)
      /\ Len(inv[i].inserts) = 1
      /\ inv[i].inserts[1].doc.videoUrl = inv[i].responses[1].video_url
      /\ inv[i].inserts[1].doc.scriptText = inv[i].request.script_text
      /\ inv[i].inserts[1].doc.avatarId = inv[i].request.avatar_id
      /\ inv[i].inserts[1].doc.userId = RequestUser(inv[i].request)

\* The invocation called the publish stage.
Published(i) == \E k \in 1 .. Len(inv[i].attempted) : inv[i].attempted[k] = "publish"

\* C10: two invocations that published and differ in user_id, in the second of
\* the timestamp or in avatar_id published to different destination paths.
C10_DestinationPathUnique ==
  \A i, j \in Proc :
    (/\ i # j /\ Published(i) /\ Published(j)
     /\ <<inv[i].user_id, inv[i].timestamp, inv[i].avatar_id>>
          # <<inv[j].user_id, inv[j].timestamp, inv[j].avatar_id>>) =>
      inv[i].final_storage_path # inv[j].final_storage_path

ConfigurationError ==
  ErrorResponse(<<"Configuration error: Replicate API token not found.">>, 500)

\* C11: with the token absent, no invocation ever gets past the token check (it
\* never validates, never constructs a client, never enters a stage, creates no
\* file and attempts no insert), and one that has ended returned the 500 of
\* the configuration error, whatever its body.
C11_MissingTokenFailsFirst ==
  ~token =>
    \A i \in Proc :
      /\ inv[i].pc \in {"idle", "check_token", "returned"}
      /\ inv[i].attempted = <<>>
      /\ inv[i].inserts = <<>>
      /\ inv[i].created = {}
      /\ inv[i].raised = "none"
      /\ Ended(i) => inv[i].responses = <<ConfigurationError>>

\* Without the token, an invocation whose body is not JSON ended with 500.
C11_Witness ==
  \E i \in Proc :
    /\ ~token
    /\ Ended(i)
    /\ inv[i].request.kind = "not_json"
    /\ inv[i].responses[1].status = 500

FiveStages == SubSeq(Stages, 1, 5)

\* C12: an invocation that ended with a 200 attempted image fetch, speech
\* synthesis, lip-sync, result fetch and publish and none of them failed; an
\* invocation in which one of these five failed ended with an error response
\* that carries no video_url.
C12_NoPartialSuccess ==
  \A i \in Proc :
    Ended(i) =>
      /\ (\E k \in 1 .. Len(inv[i].responses) : inv[i].responses[k].status = 200) =>
           /\ Len(inv[i].attempted) >= 5
           /\ SubSeq(inv[i].attempted, 1, 5) = FiveStages
           /\ inv[i].failed = <<>>
           /\ \E o \in bucket : o.path = inv[i].final_storage_path /\ o.uploader = i
      /\ (\E k \in 1 .. Len(inv[i].failed) : inv[i].failed[k].stage \in Range(FiveStages)) =>
           /\ Len(inv[i].responses) = 1
           /\ IsError(inv[i].responses[1])
           /\ inv[i].responses[1].video_url = NoUrl

\* An invocation ended with an error after its publish stage failed although
\* the object had been stored.
C12_Witness ==
  \E i \in Proc :
    /\ Ended(i)
    /\ inv[i].failed # <<>>
    /\ inv[i].failed[1].stage = "publish"
    /\ \E o \in bucket : o.path = inv[i].final_storage_path
    /\ IsError(inv[i].responses[1])

\* The invocations whose insert succeeded.
StoredInserts == {i \in Proc : inv[i].inserts # <<>> /\ inv[i].inserts[1].stored}

\* C13: an invocation attempts at most one insert, and only after all of stages
\* 1 to 5 succeeded and publish returned a URL that is not empty, which the
\* document carries; an invocation that ended with an error attempted none; the
\* collection holds exactly the documents whose insert succeeded, unchanged.
C13_RecordCreatedOnceAtEnd ==
  /\ \A i \in Proc :
       /\ Len(inv[i].inserts) <= 1
       /\ inv[i].inserts # <<>> =>
            /\ inv[i].attempted = Stages
            /\ inv[i].failed = <<>>
            /\ inv[i].final_video_storage_url # NoUrl
            /\ inv[i].inserts[1].doc.videoUrl = inv[i].final_video_storage_url
            /\ inv[i].result = SuccessResponse(inv[i].final_video_storage_url)
       /\ (Ended(i) /\ \E k \in 1 .. Len(inv[i].responses) : inv[i].responses[k].status # 200) =>
            inv[i].inserts = <<>>
  /\ Len(db) = Cardinality(StoredInserts)
  /\ \A k \in 1 .. Len(db) : \E i \in StoredInserts : db[k] = inv[i].inserts[1].doc

\* An invocation ended with 200 and its one document is in the collection.
C13_Witness ==
  \E i \in Proc :
    /\ Ended(i)
    /\ Len(inv[i].inserts) = 1
    /\ inv[i].inserts[1].stored
    /\ db = <<inv[i].inserts[1].doc>>
    /\ inv[i].responses[1].status = 200

\* C14: no step of the finally block changes the pending return value, whether
\* or not an os.remove raised; when the block is left, that value is the one
\* response, all three paths have been visited, and every file the invocation
\* created that is still on disk has had its os.remove called.
C14_CleanupFailureNotEscalated ==
  [][\A i \in Proc :
       inv[i].pc = "cleanup" =>
         /\ inv'[i].result = inv[i].result
         /\ inv'[i].pc \in {"cleanup", "returned"}
         /\ inv'[i].pc = "returned" =>
              /\ inv'[i].responses = <<inv[i].result>>
              /\ inv'[i].cleanup_at = Len(TempPaths(inv[i].execution_id)) + 1
              /\ \A p \in inv'[i].created :
                   Exists(disk', p) => p \in Range(inv'[i].remove_tried)]_vars

\* An invocation ended with 200 although the removal of its avatar file, the
\* first of the loop, failed; os.remove was still called on the other two.
C14_Witness ==
  \E i \in Proc :
    /\ Ended(i)
    /\ temp_avatar_path(inv[i].execution_id) \in inv[i].remove_failed
    /\ Len(inv[i].remove_tried) = 3
    /\ inv[i].responses = <<SuccessResponse(inv[i].final_video_storage_url)>>

\* Text of the AttributeError of line 191.
SplitError == <<"object has no attribute 'split'">>

\* Text of the exception that left the try block.
UnanticipatedText(r) ==
  IF r.failed # <<>> THEN r.failed[1].cause ELSE SplitError

\* An exception that is no OperationFailure left the try block: the result
\* fetch raised one that download_replicate_video does not catch, or
\* avatar_id.split raised after four successful stages.
Unanticipated(r) ==
  /\ r.pc \in {"cleanup", "returned"}
  /\ \/ r.failed # <<>> /\ r.failed[1].exc # "OperationFailure"
     \/ r.failed = <<>> /\ Len(r.attempted) = 4 /\ r.avatar_id.t # "str"

\* C15: when an exception that is no OperationFailure left the try block, the
\* return value is status 500 with the fixed message, which does not contain the
\* text of the exception; the invocation ends with that one response only after
\* the finally loop visited all three paths and called os.remove on every file
\* it created that is on disk.
C15_CatchAllIsGeneric ==
  \A i \in Proc :
    Unanticipated(inv[i]) =>
      /\ inv[i].result = ErrorResponse(<<"An unexpected server error occurred.">>, 500)
      /\ ~Contains(inv[i].result.message, UnanticipatedText(inv[i]))
      /\ Ended(i) =>
           /\ inv[i].responses = <<inv[i].result>>
           /\ inv[i].cleanup_at = 4
           /\ \A p \in inv[i].created : Exists(disk, p) => p \in inv[i].remove_failed

\* An invocation ended after the result fetch raised an error that is no
\* request error and left a partly written video file, which cleanup removed.
C15_Witness ==
  \E i \in Proc :
    /\ Ended(i)
    /\ inv[i].failed # <<>>
    /\ inv[i].failed[1] = [stage |-> "result_fetch", cause |-> <<"io error">>,
                           exc |-> "Exception"]
    /\ temp_video_path(inv[i].execution_id) \in Range(inv[i].remove_tried)
    /\ inv[i].responses[1].status = 500

\* C16: an invocation whose client construction failed had a validated request,
\* has ended with the one response 500, entered no stage, attempted no insert,
\* defined no transient path, created no file and has none on disk, and never
\* ran a pass of the finally loop.
C16_ClientInitFailure ==
  \A i \in Proc :
    inv[i].clients = "failed" =>
      /\ Truthy(inv[i].request.script_text) /\ Truthy(inv[i].request.avatar_id)
      /\ Ended(i)
      /\ inv[i].responses =
           <<ErrorResponse(<<"Failed to initialize necessary API clients.">>, 500)>>
      /\ inv[i].attempted = <<>>
      /\ inv[i].inserts = <<>>
      /\ inv[i].execution_id = <<>>
      /\ inv[i].created = {}
      /\ \A f \in disk : f.creator # i
      /\ inv[i].cleanup_at = 1
      /\ inv[i].remove_tried = <<>>

\* An invocation ended with 500 after a client constructor raised.
C16_Witness ==
  \E i \in Proc :
    /\ inv[i].clients = "failed"
    /\ Ended(i)
    /\ inv[i].responses[1].status = 500
    /\ disk = {}

====
